---- MODULE Spec2Model ----
(***************************************************************************)
(* DuctMaster Pro (src/app.jsx): the duct-sizing functions, the input      *)
(* handlers, the calculation effect and the aspect-ratio display values.   *)
(*                                                                         *)
(* JavaScript numbers are IEEE doubles.  A number is modelled as a record  *)
(* [k, l]: k is its kind (NaN, -Infinity, negative, zero, positive,        *)
(* +Infinity) and, for a finite non-zero number, l is log2 of its          *)
(* magnitude in units of 2^-22.  Products, quotients and powers are exact  *)
(* up to one rounding of l; sums and differences go through a 26-bit       *)
(* mantissa and are rounded to that unit, so a term about 2^24 times       *)
(* smaller than the other is absorbed, as a term 2^54 times smaller is in  *)
(* a double.  Powers of two and ratios of numbers with equal mantissas     *)
(* are exact.  -0 is not distinguished from 0, and magnitudes stay within  *)
(* 2^-512 .. 2^512: overflow of a double to Infinity is not represented.   *)
(***************************************************************************)
EXTENDS Integers, Sequences, FiniteSets, TLC

----------------------------------------------------------------------------
(* Fixed-point kernel behind Math.pow, Math.sqrt, + and -                  *)

One == 2^22          \* log2 unit: l = One means a factor of 2
M1 == 2^26           \* mantissa 1.0
M2 == 2^27           \* mantissa 2.0
Half == 2^13
Ln2M == 46516320     \* ln 2 as a mantissa, round(ln(2) * 2^26)

\* (a * b) / 2^26 for mantissas a, b < 2^27, without leaving 32 bits
MulM(a, b) ==
  LET ah == a \div Half
      al == a % Half
      bh == b \div Half
      bl == b % Half
  IN  ah * bh + ((ah * bl + al * bh + ((al * bl) \div Half)) \div Half)

\* the next k bits of log2(m / 2^26), by repeated squaring
RECURSIVE LogBits(_, _, _)
LogBits(m, k, acc) ==
  IF k = 0 THEN acc
  ELSE LET q == MulM(m, m)
       IN  IF q >= M2 THEN LogBits(q \div 2, k - 1, 2 * acc + 1)
                      ELSE LogBits(q, k - 1, 2 * acc)

Log2Frac(m) == LogBits(m, 22, 0)

RECURSIVE FloorLog2(_)
FloorLog2(n) == IF n < 2 THEN 0 ELSE 1 + FloorLog2(n \div 2)

\* log2 of an integer n >= 1, in units of 2^-22
Log2Int(n) ==
  LET k == FloorLog2(n)
      m == IF k <= 26 THEN n * 2^(26 - k) ELSE n \div 2^(k - 26)
  IN  k * One + Log2Frac(m)

\* e^y for a mantissa y < ln 2, by its Taylor series
RECURSIVE ExpTerm(_, _)
ExpTerm(y, k) == IF k > 12 THEN M1 ELSE M1 + (MulM(y, ExpTerm(y, k + 1)) \div k)

\* 2^(f / One) for 0 <= f < One, as a mantissa
Exp2Frac(f) == ExpTerm(MulM(f * 16, Ln2M), 1)

\* both functions tabulated at 1024 points; between them, interpolated
TabLen == 2^10
LogTab == [j \in 0..TabLen |-> IF j = TabLen THEN One ELSE Log2Frac(M1 + j * 2^16)]
ExpTab == [j \in 0..TabLen |-> IF j = TabLen THEN M2 ELSE Exp2Frac(j * 2^12)]

\* log2(m / 2^26) for a mantissa m in [2^26, 2^27]
Log2M(m) ==
  LET j == (m - M1) \div 2^16
      r == (m - M1) % 2^16
  IN  IF j = TabLen THEN One
      ELSE LogTab[j] + (((LogTab[j + 1] - LogTab[j]) * r) \div 2^16)

\* 2^(f / One) for 0 <= f < One, as a mantissa
Exp2M(f) ==
  LET j == f \div 2^12
      r == f % 2^12
  IN  ExpTab[j] + ((((ExpTab[j + 1] - ExpTab[j]) \div 16) * r) \div 2^8)

\* 2^(-d / One) for d >= 0, in units of 2^-26; 0 once d is 27 or more
Exp2Neg(d) ==
  LET q == d \div One
      r == d % One
  IN  IF q >= 27 THEN 0
      ELSE IF r = 0 THEN M1 \div 2^q
      ELSE Exp2M(One - r) \div 2^(q + 1)

\* log2(2^a + 2^b)
LAdd(a, b) ==
  LET hi == IF a >= b THEN a ELSE b
      lo == IF a >= b THEN b ELSE a
  IN  hi + Log2M(M1 + Exp2Neg(hi - lo))

RECURSIVE Norm(_, _)
Norm(m, k) == IF m >= M1 THEN <<m, k>> ELSE Norm(2 * m, k + 1)

\* l * p / q, rounded, without leaving 32 bits
MulRat(l, p, q) == (l \div q) * p + (((l % q) * p + (q \div 2)) \div q)

----------------------------------------------------------------------------
(* JavaScript numbers                                                      *)

NaN == [k |-> "nan", l |-> 0]
PInf == [k |-> "pinf", l |-> 0]
NInf == [k |-> "ninf", l |-> 0]
Zero == [k |-> "zero", l |-> 0]
Pos(l) == [k |-> "pos", l |-> l]
Neg(l) == [k |-> "neg", l |-> l]

\* the decimal n / 10^e, n >= 1
Dec(n, e) == Pos(Log2Int(n) - Log2Int(10^e))

IsNaN(a) == a.k = "nan"
Sign(a) == CASE a.k \in {"pos", "pinf"} -> 1
             [] a.k \in {"neg", "ninf"} -> -1
             [] OTHER -> 0
IsInf(a) == a.k \in {"pinf", "ninf"}
IsZero(a) == a.k = "zero"
Signed(s, l) == IF s > 0 THEN Pos(l) ELSE Neg(l)
SignedInf(s) == IF s > 0 THEN PInf ELSE NInf

\* position on the number line, for comparisons of numbers that are not NaN
Rank(a) == CASE a.k = "ninf" -> <<0, 0>>
             [] a.k = "neg" -> <<1, -a.l>>
             [] a.k = "zero" -> <<2, 0>>
             [] a.k = "pos" -> <<3, a.l>>
             [] OTHER -> <<4, 0>>

\* a < b, a <= b, a > b: false when either side is NaN
Lt(a, b) ==
  /\ ~IsNaN(a) /\ ~IsNaN(b)
  /\ LET ra == Rank(a)
         rb == Rank(b)
     IN  ra[1] < rb[1] \/ (ra[1] = rb[1] /\ ra[2] < rb[2])
Le(a, b) == ~IsNaN(a) /\ ~IsNaN(b) /\ ~Lt(b, a)
Gt(a, b) == Lt(b, a)
Ge(a, b) == Le(b, a)

Negate(a) == CASE a.k = "pos" -> Neg(a.l)
               [] a.k = "neg" -> Pos(a.l)
               [] a.k = "pinf" -> NInf
               [] a.k = "ninf" -> PInf
               [] OTHER -> a

Abs(a) == IF Sign(a) < 0 THEN Negate(a) ELSE a

Mul(a, b) ==
  IF IsNaN(a) \/ IsNaN(b) THEN NaN
  ELSE IF IsInf(a) \/ IsInf(b)
       THEN IF IsZero(a) \/ IsZero(b) THEN NaN ELSE SignedInf(Sign(a) * Sign(b))
  ELSE IF IsZero(a) \/ IsZero(b) THEN Zero
  ELSE Signed(Sign(a) * Sign(b), a.l + b.l)

Div(a, b) ==
  IF IsNaN(a) \/ IsNaN(b) THEN NaN
  ELSE IF IsInf(a)
       THEN IF IsInf(b) THEN NaN
            ELSE SignedInf(Sign(a) * (IF IsZero(b) THEN 1 ELSE Sign(b)))
  ELSE IF IsInf(b) THEN Zero
  ELSE IF IsZero(b) THEN (IF IsZero(a) THEN NaN ELSE SignedInf(Sign(a)))
  ELSE IF IsZero(a) THEN Zero
  ELSE Signed(Sign(a) * Sign(b), a.l - b.l)

\* Math.pow(a, p / q) for an exponent p / q > 0
Pow(a, p, q) ==
  CASE a.k = "nan" -> NaN
    [] a.k = "zero" -> Zero
    [] a.k = "pinf" -> PInf
    [] a.k = "pos" -> Pos(MulRat(a.l, p, q))
    [] a.k = "neg" -> IF q # 1 THEN NaN
                      ELSE IF p % 2 = 0 THEN Pos(a.l * p) ELSE Neg(a.l * p)
    [] OTHER -> IF q # 1 THEN PInf ELSE IF p % 2 = 0 THEN PInf ELSE NInf

\* Math.sqrt(a)
Sqrt(a) ==
  CASE a.k \in {"neg", "ninf"} -> NaN
    [] a.k = "pos" -> Pos(MulRat(a.l, 1, 2))
    [] OTHER -> a

\* |a| - |b| for finite non-zero a, b with |a| > |b|, as a magnitude
SubMag(la, lb) ==
  LET m == M1 - Exp2Neg(la - lb)
      n == Norm(m, 0)
  IN  IF m <= 0 THEN Zero ELSE Pos(la - n[2] * One + Log2M(n[1]))

Add(a, b) ==
  IF IsNaN(a) \/ IsNaN(b) THEN NaN
  ELSE IF IsInf(a) THEN (IF IsInf(b) /\ a # b THEN NaN ELSE a)
  ELSE IF IsInf(b) THEN b
  ELSE IF IsZero(a) THEN b
  ELSE IF IsZero(b) THEN a
  ELSE IF Sign(a) = Sign(b) THEN Signed(Sign(a), LAdd(a.l, b.l))
  ELSE IF a.l = b.l THEN Zero
  ELSE IF a.l > b.l
       THEN (LET d == SubMag(a.l, b.l) IN IF Sign(a) > 0 THEN d ELSE Negate(d))
       ELSE (LET d == SubMag(b.l, a.l) IN IF Sign(b) > 0 THEN d ELSE Negate(d))

Sub(a, b) == Add(a, Negate(b))

\* Math.max, Math.min
Max(a, b) == IF IsNaN(a) \/ IsNaN(b) THEN NaN ELSE IF Lt(a, b) THEN b ELSE a
Min(a, b) == IF IsNaN(a) \/ IsNaN(b) THEN NaN ELSE IF Lt(b, a) THEN b ELSE a

\* a || b: a unless a is falsy (0 or NaN)
OrElse(a, b) == IF IsZero(a) \/ IsNaN(a) THEN b ELSE a

----------------------------------------------------------------------------
(* Conversion constants and literals                                       *)

CMH_TO_CFM == Dec(588578, 6)
PA_M_TO_IN_100FT == Dec(1224, 4)
M_S_TO_FPM == Dec(19685, 2)
MM_TO_IN == Dec(393701, 7)

MathPI == Dec(314159265, 8)
FrictionK == Dec(109136, 6)      \* 0.109136
HuebscherK == Dec(13, 1)         \* 1.30
Num(n) == Dec(n, 0)              \* an integer literal n >= 1

----------------------------------------------------------------------------
(* HVAC math functions                                                     *)

solveDiaByFriction(cfm, friction) ==
  IF Le(cfm, Zero) \/ Le(friction, Zero) THEN Zero
  ELSE Pow(Div(Mul(FrictionK, Pow(cfm, 19, 10)), friction), 50, 251)

solveDiaByVelocity(cfm, fpm) ==
  IF Le(cfm, Zero) \/ Le(fpm, Zero) THEN Zero
  ELSE LET areaSqFt == Div(cfm, fpm)
       IN  Mul(Mul(Num(2), Sqrt(Div(areaSqFt, MathPI))), Num(12))

calcVelocity(cfm, diaInches) ==
  IF Le(diaInches, Zero) THEN Zero
  ELSE LET areaSqFt == Mul(MathPI, Pow(Div(diaInches, Num(24)), 2, 1))
       IN  Div(cfm, areaSqFt)

\* the same with the exponent 5 of the smooth-pipe law in place of 5.02
calcFrictionFifthPower(cfm, diaInches) ==
  IF Le(diaInches, Zero) \/ Le(cfm, Zero) THEN Zero
  ELSE Div(Mul(FrictionK, Pow(cfm, 19, 10)), Pow(diaInches, 5, 1))

calcFriction(cfm, diaInches) ==
  IF Le(diaInches, Zero) \/ Le(cfm, Zero) THEN Zero
  ELSE Div(Mul(FrictionK, Pow(cfm, 19, 10)), Pow(diaInches, 251, 50))

\* the scanned sides x = 2, 2.5, ..., 150 are i / 2 for i = 4..300
GridFirst == 4
GridLast == 300
GridLog == [i \in GridFirst..GridLast |-> Log2Int(i) - One]
GridX(i) == Pos(GridLog[i])

\* the equivalent diameter of a knownSide by x rectangle
calcDe(knownSide, x) ==
  LET top == Pow(Mul(knownSide, x), 5, 8)
      bot == Pow(Add(knownSide, x), 1, 4)
  IN  Mul(HuebscherK, Div(top, bot))

rectDiff(targetDia, knownSide, x) == Abs(Sub(calcDe(knownSide, x), targetDia))

\* one iteration of the loop, on the pair [bestSide, minDiff]
ScanStep(targetDia, knownSide, i, st) ==
  LET diff == rectDiff(targetDia, knownSide, GridX(i))
  IN  IF Lt(diff, st.minDiff) THEN [bestSide |-> GridX(i), minDiff |-> diff] ELSE st

\* the iterations lo..hi in increasing order, the first half before the second
RECURSIVE ScanLoop(_, _, _, _, _)
ScanLoop(targetDia, knownSide, lo, hi, st) ==
  IF lo = hi THEN ScanStep(targetDia, knownSide, lo, st)
  ELSE LET mid == (lo + hi) \div 2
           left == ScanLoop(targetDia, knownSide, lo, mid, st)
       IN  IF left.minDiff = left.minDiff
           THEN ScanLoop(targetDia, knownSide, mid + 1, hi, left)
           ELSE left

solveRectDimension(targetDia, knownSide) ==
  IF Le(targetDia, Zero) \/ Le(knownSide, Zero) THEN Zero
  ELSE ScanLoop(targetDia, knownSide, GridFirst, GridLast,
                [bestSide |-> Zero, minDiff |-> Num(1000)]).bestSide

----------------------------------------------------------------------------
(* State                                                                   *)

VARIABLES
  units,            \* 'IP' or 'SI'
  mode,             \* 'friction' or 'velocity'
  airflowIP, frictionIP, velocityIP, rectSideIP,                \* inputs, native IP
  resultDia, resultVelocity, resultFriction, resultRectSide,    \* calculated results
  mounted,          \* the calculation effect has run at least once
  rectSearch,       \* what the last pass did about the rectangular search
  aiLoading, aiResponse, aiError, aiMode,                       \* AI state
  gemini,           \* where the callGemini in flight stands, and how the last one ended
  call,             \* the function application under test, FnSpec only
  prev              \* the application whose result is an argument of call

inputs == <<airflowIP, frictionIP, velocityIP, rectSideIP, mode>>
results == <<resultDia, resultVelocity, resultFriction, resultRectSide>>
appVars == <<units, inputs, results, mounted, rectSearch>>
aiVars == <<aiLoading, aiResponse, aiError, aiMode, gemini>>
fnVars == <<call, prev>>
vars == <<appVars, aiVars, fnVars>>

NoCall == [fn |-> "none", args |-> <<>>, ret |-> Zero]

Init ==
  /\ units = "IP"
  /\ mode = "friction"
  /\ airflowIP = Num(1000)
  /\ frictionIP = Dec(1, 1)
  /\ velocityIP = Num(1200)
  /\ rectSideIP = Num(12)
  /\ resultDia = Zero
  /\ resultVelocity = Zero
  /\ resultFriction = Zero
  /\ resultRectSide = Zero
  /\ mounted = FALSE
  /\ rectSearch = "none"
  /\ aiLoading = FALSE
  /\ aiResponse = ""
  /\ aiError = ""
  /\ aiMode = "null"
  /\ gemini = "never"
  /\ call = NoCall
  /\ prev = NoCall

----------------------------------------------------------------------------
(* Number(val): val is the text of an input, a sequence of characters.     *)
(* Covered: the empty text, an optional sign, decimal digits with at most  *)
(* one point, Infinity; any other text gives NaN.                          *)

DigitChars == <<"0", "1", "2", "3", "4", "5", "6", "7", "8", "9">>
IsDigit(c) == \E d \in 1..10 : DigitChars[d] = c
DigitOf(c) == (CHOOSE d \in 1..10 : DigitChars[d] = c) - 1

RECURSIVE DigitsValue(_)
DigitsValue(s) ==
  IF s = <<>> THEN 0 ELSE 10 * DigitsValue(SubSeq(s, 1, Len(s) - 1)) + DigitOf(s[Len(s)])

InfinityText == <<"I", "n", "f", "i", "n", "i", "t", "y">>

Number(val) ==
  LET signed == val # <<>> /\ val[1] \in {"-", "+"}
      sgn == IF val # <<>> /\ val[1] = "-" THEN -1 ELSE 1
      body == IF signed THEN Tail(val) ELSE val
      dots == {i \in 1..Len(body) : body[i] = "."}
      fracLen == IF dots = {} THEN 0 ELSE Len(body) - (CHOOSE i \in dots : TRUE)
      digits == SelectSeq(body, IsDigit)
      n == DigitsValue(digits)
  IN  IF val = <<>> THEN Zero
      ELSE IF body = InfinityText THEN SignedInf(sgn)
      ELSE IF \/ Cardinality(dots) > 1
              \/ digits = <<>>
              \/ Len(digits) + Cardinality(dots) # Len(body)
           THEN NaN
      ELSE IF n = 0 THEN Zero
      ELSE Signed(sgn, Dec(n, fracLen).l)

----------------------------------------------------------------------------
(* The calculation effect, run with the values of its dependency list      *)

\* solveRectDimension's own account of a call: stopped at its guard, or scanned
rectCall(targetDia, knownSide) ==
  IF Le(targetDia, Zero) \/ Le(knownSide, Zero) THEN "guarded" ELSE "scanned"

\* step 1: the diameter, by mode
effectDia(airflow, friction, velocity, md) ==
  IF md = "friction" THEN solveDiaByFriction(airflow, friction)
                     ELSE solveDiaByVelocity(airflow, velocity)

\* the velocity and the friction rate: one derived from d, one the target itself
\* the same reading the diameter of the previous render instead of d
effectVelocityStale(airflow, velocity, d, md) ==
  IF md = "friction" THEN calcVelocity(airflow, resultDia) ELSE velocity

effectVelocity(airflow, velocity, d, md) ==
  IF md = "friction" THEN calcVelocity(airflow, d) ELSE velocity

effectFriction(airflow, friction, d, md) ==
  IF md = "friction" THEN friction ELSE calcFriction(airflow, d)

\* the same with either operand sufficing
rectGuardEither(d, rectSide) == Gt(d, Zero) \/ Gt(rectSide, Zero)

\* step 2 runs the rectangular search only under this condition
rectGuard(d, rectSide) == Gt(d, Zero) /\ Gt(rectSide, Zero)

calculationEffect(airflow, friction, velocity, rectSide, md) ==
  LET d == effectDia(airflow, friction, velocity, md)
  IN  /\ resultDia' = d
      /\ resultVelocity' = effectVelocity(airflow, velocity, d, md)
      /\ resultFriction' = effectFriction(airflow, friction, d, md)
      /\ IF rectGuard(d, rectSide)
         THEN /\ resultRectSide' = solveRectDimension(d, rectSide)
              /\ rectSearch' = rectCall(d, rectSide)
         ELSE /\ resultRectSide' = Zero
              /\ rectSearch' = "skipped"

\* the effect runs again only when a dependency changed
runEffect(airflow, friction, velocity, rectSide, md) ==
  IF <<airflow, friction, velocity, rectSide, md>> # inputs
  THEN calculationEffect(airflow, friction, velocity, rectSide, md)
  ELSE UNCHANGED <<results, rectSearch>>

\* the first render: the effect runs on the initial inputs
Mount ==
  /\ ~mounted
  /\ mounted' = TRUE
  /\ calculationEffect(airflowIP, frictionIP, velocityIP, rectSideIP, mode)
  /\ UNCHANGED <<units, inputs, fnVars, aiVars>>

----------------------------------------------------------------------------
(* Handlers                                                                *)

handleAirflowChange(val) ==
  LET num == Number(val)
      next == IF units = "IP" THEN num ELSE Mul(num, CMH_TO_CFM)
  IN  /\ mounted
      /\ airflowIP' = next
      /\ runEffect(next, frictionIP, velocityIP, rectSideIP, mode)
      /\ UNCHANGED <<units, mode, frictionIP, velocityIP, rectSideIP, mounted, fnVars, aiVars>>

handleFrictionChange(val) ==
  LET num == Number(val)
      next == IF units = "IP" THEN num ELSE Mul(num, PA_M_TO_IN_100FT)
  IN  /\ mounted
      /\ frictionIP' = next
      /\ runEffect(airflowIP, next, velocityIP, rectSideIP, mode)
      /\ UNCHANGED <<units, mode, airflowIP, velocityIP, rectSideIP, mounted, fnVars, aiVars>>

handleVelocityChange(val) ==
  LET num == Number(val)
      next == IF units = "IP" THEN num ELSE Mul(num, M_S_TO_FPM)
  IN  /\ mounted
      /\ velocityIP' = next
      /\ runEffect(airflowIP, frictionIP, next, rectSideIP, mode)
      /\ UNCHANGED <<units, mode, airflowIP, frictionIP, rectSideIP, mounted, fnVars, aiVars>>

handleRectSideChange(val) ==
  LET num == Number(val)
      next == IF units = "IP" THEN num ELSE Mul(num, MM_TO_IN)
  IN  /\ mounted
      /\ rectSideIP' = next
      /\ runEffect(airflowIP, frictionIP, velocityIP, next, mode)
      /\ UNCHANGED <<units, mode, airflowIP, frictionIP, velocityIP, mounted, fnVars, aiVars>>

\* the same for an effect whose dependency list leaves out mode
setModeNoEffect(md) ==
  /\ mounted
  /\ mode' = md
  /\ UNCHANGED <<units, airflowIP, frictionIP, velocityIP, rectSideIP, mounted, fnVars, aiVars>>
  /\ UNCHANGED <<results, rectSearch>>

setMode(md) ==
  /\ mounted
  /\ mode' = md
  /\ runEffect(airflowIP, frictionIP, velocityIP, rectSideIP, md)
  /\ UNCHANGED <<units, airflowIP, frictionIP, velocityIP, rectSideIP, mounted, fnVars, aiVars>>

toggleUnits ==
  /\ mounted
  /\ units' = IF units = "IP" THEN "SI" ELSE "IP"
  /\ UNCHANGED <<inputs, results, mounted, rectSearch, fnVars, aiVars>>

----------------------------------------------------------------------------
(* callGemini.  The prompt is built from reads of the state and leaves     *)
(* with the request; nothing of it is kept.  gemini is "fetching" while    *)
(* fetch is awaited, "parsing" while response.json() is awaited, and       *)
(* otherwise tells how the last call ended ("never": none was made).       *)

FailedToConnect == "Failed to connect to AI. Please try again."
NoResponse == "No response generated."

\* the same without setAiResponse('')
callGeminiKeepResponse(type) ==
  /\ aiLoading' = TRUE
  /\ aiError' = ""
  /\ aiMode' = type
  /\ gemini' = "fetching"
  /\ UNCHANGED <<aiResponse, appVars, fnVars>>

\* the synchronous part, up to await fetch
callGemini(type) ==
  /\ aiLoading' = TRUE
  /\ aiResponse' = ""
  /\ aiError' = ""
  /\ aiMode' = type
  /\ gemini' = "fetching"
  /\ UNCHANGED <<appVars, fnVars>>

\* catch, then finally
geminiCatch(how) ==
  /\ aiError' = FailedToConnect
  /\ aiLoading' = FALSE
  /\ gemini' = how
  /\ UNCHANGED <<aiResponse, aiMode, appVars, fnVars>>

\* fetch rejects
fetchRejects ==
  /\ gemini = "fetching"
  /\ geminiCatch("rejected")

\* fetch resolves: a response that is not ok throws 'API Error'
fetchResolves(ok) ==
  /\ gemini = "fetching"
  /\ IF ok
     THEN /\ gemini' = "parsing"
          /\ UNCHANGED <<aiLoading, aiResponse, aiError, aiMode, appVars, fnVars>>
     ELSE geminiCatch("notOk")

\* response.json() rejects: the body is not JSON
jsonRejects ==
  /\ gemini = "parsing"
  /\ geminiCatch("badBody")

\* response.json() resolves with data: data is "null", or the sequence of
\* candidate texts (data.candidates?.[0]?.content?.parts?.[0]?.text)
jsonResolves(data) ==
  /\ gemini = "parsing"
  /\ IF data = "null"
     THEN geminiCatch("badBody")
     ELSE /\ aiResponse' = IF data = <<>> \/ data[1] = "" THEN NoResponse ELSE data[1]
          /\ aiLoading' = FALSE
          /\ gemini' = "answered"
          /\ UNCHANGED <<aiError, aiMode, appVars, fnVars>>

----------------------------------------------------------------------------
(* Display values                                                          *)

\* the display values of a render with units = u
displayRectSideIn(u) == IF u = "IP" THEN rectSideIP ELSE Div(rectSideIP, MM_TO_IN)
showRectResIn(u) == IF u = "IP" THEN resultRectSide ELSE Div(resultRectSide, MM_TO_IN)

safeDisplayRectSideIn(u) == OrElse(displayRectSideIn(u), Num(1))
safeShowRectResIn(u) == OrElse(showRectResIn(u), Num(1))
ratioValIn(u) ==
  Div(Max(safeDisplayRectSideIn(u), safeShowRectResIn(u)),
      Min(safeDisplayRectSideIn(u), safeShowRectResIn(u)))
isRatioWarningIn(u) == Gt(ratioValIn(u), Num(4))

\* the render of the current state
displayRectSide == displayRectSideIn(units)
showRectRes == showRectResIn(units)
safeDisplayRectSide == safeDisplayRectSideIn(units)
safeShowRectRes == safeShowRectResIn(units)
ratioVal == ratioValIn(units)

\* the same with the limit itself flagged
isRatioWarningAtFour == Ge(ratioVal, Num(4))
isRatioWarning == isRatioWarningIn(units)

----------------------------------------------------------------------------
(* What the user types                                                     *)

AirflowEntries == {<<"2", "5", "0">>, <<>>}
FrictionEntries == {<<"-", "1">>}
VelocityEntries == {<<"a", "b", "c">>}
RectSideEntries == {<<"4">>, <<"-", "8">>}

HandleAirflow == \E val \in AirflowEntries : handleAirflowChange(val)
HandleFriction == \E val \in FrictionEntries : handleFrictionChange(val)
HandleVelocity == \E val \in VelocityEntries : handleVelocityChange(val)
HandleRectSide == \E val \in RectSideEntries : handleRectSideChange(val)
SetMode == \E md \in {"friction", "velocity"} : setMode(md)

Next ==
  \/ Mount
  \/ HandleAirflow
  \/ HandleFriction
  \/ HandleVelocity
  \/ HandleRectSide
  \/ SetMode
  \/ toggleUnits

Spec == Init /\ [][Next]_vars

----------------------------------------------------------------------------
(* The advisory call, with edits in between                                *)

\* the two buttons are disabled while aiLoading
ClickGemini == \E type \in {"analyze", "draft"} : mounted /\ ~aiLoading /\ callGemini(type)
FetchResolves == \E ok \in BOOLEAN : fetchResolves(ok)
JsonBodies == {"null", <<>>, <<"">>, <<"Noise risk is low.">>}
JsonResolves == \E data \in JsonBodies : jsonResolves(data)
EditAirflow == handleAirflowChange(<<"2", "5", "0">>)
EditRectSide == handleRectSideChange(<<"4">>)

AiNext ==
  \/ Mount
  \/ ClickGemini
  \/ fetchRejects
  \/ FetchResolves
  \/ jsonRejects
  \/ JsonResolves
  \/ EditAirflow
  \/ EditRectSide
  \/ SetMode
  \/ toggleUnits

AiSpec == Init /\ [][AiNext]_vars

----------------------------------------------------------------------------
(* The functions applied to sampled arguments                              *)

MaxCfm == 16
MaxFriction == 10
MaxVelocity == 4
MaxDia == 6
MaxSide == 4

NonPositive == {Zero, Neg(Log2Int(5))}
CfmSamples == NonPositive \cup {Num(125 * i) : i \in 1..MaxCfm}
FrictionSamples == NonPositive \cup {Dec(2 * i, 2) : i \in 1..MaxFriction}
VelocitySamples == NonPositive \cup {Num(300 * i) : i \in 1..MaxVelocity}
DiaSamples == NonPositive \cup {Dec(35 * i, 1) : i \in 1..MaxDia}
TargetSamples == DiaSamples \cup {Num(2000), Pos(70 * One), PInf}
SideSamples == NonPositive \cup {Num(4 * i) : i \in 1..MaxSide}

Apply(fn, args, ret) ==
  /\ call' = [fn |-> fn, args |-> args, ret |-> ret]
  /\ prev' = NoCall
  /\ UNCHANGED <<appVars, aiVars>>

CallSolveDiaByFriction ==
  \E cfm \in CfmSamples, friction \in FrictionSamples :
    Apply("solveDiaByFriction", <<cfm, friction>>, solveDiaByFriction(cfm, friction))

CallSolveDiaByVelocity ==
  \E cfm \in CfmSamples, fpm \in VelocitySamples :
    Apply("solveDiaByVelocity", <<cfm, fpm>>, solveDiaByVelocity(cfm, fpm))

CallCalcVelocity ==
  \E cfm \in CfmSamples, dia \in DiaSamples :
    Apply("calcVelocity", <<cfm, dia>>, calcVelocity(cfm, dia))

CallCalcFriction ==
  \E cfm \in CfmSamples, dia \in DiaSamples :
    Apply("calcFriction", <<cfm, dia>>, calcFriction(cfm, dia))

CallSolveRectDimension ==
  \E targetDia \in TargetSamples, knownSide \in SideSamples :
    Apply("solveRectDimension", <<targetDia, knownSide>>,
          solveRectDimension(targetDia, knownSide))

\* calcFriction on the diameter solveDiaByFriction has just returned, same airflow
CallCalcFrictionOfSolved ==
  /\ call.fn = "solveDiaByFriction"
  /\ call' = [fn |-> "calcFriction", args |-> <<call.args[1], call.ret>>,
              ret |-> calcFriction(call.args[1], call.ret)]
  /\ prev' = call
  /\ UNCHANGED <<appVars, aiVars>>

FnNext ==
  \/ CallSolveDiaByFriction
  \/ CallSolveDiaByVelocity
  \/ CallCalcVelocity
  \/ CallCalcFriction
  \/ CallSolveRectDimension
  \/ CallCalcFrictionOfSolved

FnSpec == Init /\ [][FnNext]_vars

----------------------------------------------------------------------------
(* Properties of the five functions (FnSpec)                               *)

MathFunctions ==
  {"solveDiaByFriction", "solveDiaByVelocity", "calcVelocity", "calcFriction",
   "solveRectDimension"}

AnyArgNonPositive == \E i \in DOMAIN call.args : Le(call.args[i], Zero)
AllArgsPositive == \A i \in DOMAIN call.args : Gt(call.args[i], Zero)

\* C1: each of the five functions returns exactly 0 whenever any of its
\* arguments is zero or negative.
C1_ZeroGuard ==
  (call.fn \in MathFunctions /\ AnyArgNonPositive) => call.ret = Zero

GridValues == {GridX(i) : i \in GridFirst..GridLast}
IsRectSearch == call.fn = "solveRectDimension" /\ AllArgsPositive
GridDiffs == {rectDiff(call.args[1], call.args[2], x) : x \in GridValues}

\* C3: for positive targetDia and knownSide, solveRectDimension returns a
\* point of the grid 2, 2.5, ..., 150 whose equivalent diameter is at least
\* as close to targetDia as that of every other grid point.
C3_GridArgMin ==
  IsRectSearch =>
    /\ call.ret \in GridValues
    /\ \A d \in GridDiffs : Le(rectDiff(call.args[1], call.args[2], call.ret), d)

MinGridDiff == CHOOSE d \in GridDiffs : \A e \in GridDiffs : Le(d, e)
TiedPoints(minDiff) ==
  {i \in GridFirst..GridLast :
     rectDiff(call.args[1], call.args[2], GridX(i)) = minDiff}
FirstOf(points) == CHOOSE i \in points : \A j \in points : i <= j

\* C4: when several grid points attain the minimal difference, the smallest
\* of them is returned.
C4_SmallestOnTie ==
  IsRectSearch =>
    LET minDiff == MinGridDiff
        tied == TiedPoints(minDiff)
    IN  Cardinality(tied) >= 2 => call.ret = GridX(FirstOf(tied))

----------------------------------------------------------------------------
(* Properties of the application (Spec)                                    *)

ResultFields == {resultDia, resultVelocity, resultFriction, resultRectSide}
activeTarget == IF mode = "friction" THEN frictionIP ELSE velocityIP
derivedResult == IF mode = "friction" THEN resultVelocity ELSE resultFriction

\* C2: once the effect has run, every field of the result is a finite number
\* >= 0; the diameter, the derived value and the required side are 0 when
\* the airflow or the active target is non-positive, and the required side
\* is 0 when the constraint side is non-positive.
C2_ResultsNonNegative ==
  mounted =>
    /\ \A r \in ResultFields : Ge(r, Zero) /\ ~IsInf(r)
    /\ (Le(airflowIP, Zero) \/ Le(activeTarget, Zero)) =>
         (resultDia = Zero /\ derivedResult = Zero /\ resultRectSide = Zero)
    /\ Le(rectSideIP, Zero) => resultRectSide = Zero

\* C5: once the effect has run, a diameter or a constraint side that is not
\* greater than 0 leaves the required side 0 with the search not run, and
\* the search has run only with both greater than 0.
C5_SearchOnlyWhenBothPositive ==
  mounted =>
    /\ (~Gt(resultDia, Zero) \/ ~Gt(rectSideIP, Zero)) =>
         (resultRectSide = Zero /\ rectSearch = "skipped")
    /\ rectSearch # "skipped" =>
         (Gt(resultDia, Zero) /\ Gt(rectSideIP, Zero) /\ rectSearch = "scanned")

C5_SearchSkipped ==
  /\ mounted
  /\ IsNaN(resultDia)
  /\ Gt(rectSideIP, Zero)
  /\ rectSearch = "skipped"
  /\ resultRectSide = Zero

ZeroToOne(a) == IF IsZero(a) THEN Num(1) ELSE a
sideA == ZeroToOne(displayRectSide)
sideB == ZeroToOne(showRectRes)

\* C6: the verdict is compliant exactly when max(sideA, sideB) /
\* min(sideA, sideB) <= 4, a side equal to 0 counting as 1.
C6_CompliantIffAtMostFour ==
  ~isRatioWarning <=> Le(Div(Max(sideA, sideB), Min(sideA, sideB)), Num(4))

C6_RatioExactlyFour ==
  /\ mounted
  /\ displayRectSide = Num(4)
  /\ showRectRes = Num(16)
  /\ ratioVal = Num(4)
  /\ ~isRatioWarning

\* C7: the aspect ratio is always a finite number >= 1.
C7_RatioAtLeastOne == Ge(ratioVal, Num(1)) /\ ~IsInf(ratioVal)

\* C8: once the effect has run, the stored values belong to one pass: in
\* friction mode the friction rate is the friction target and the velocity
\* is calcVelocity(airflow, diameter); in velocity mode the velocity is the
\* velocity target and the friction rate is calcFriction(airflow, diameter);
\* the required side is the one found for that diameter.
C8_DerivedFromSameDiameter ==
  mounted =>
    /\ mode = "friction" =>
         /\ resultFriction = frictionIP
         /\ resultVelocity = calcVelocity(airflowIP, resultDia)
    /\ mode = "velocity" =>
         /\ resultVelocity = velocityIP
         /\ resultFriction = calcFriction(airflowIP, resultDia)
    /\ resultRectSide =
         IF Gt(resultDia, Zero) /\ Gt(rectSideIP, Zero)
         THEN solveRectDimension(resultDia, rectSideIP) ELSE Zero

C8_VelocityModePass ==
  /\ mounted
  /\ mode = "velocity"
  /\ Gt(resultDia, Zero)
  /\ resultVelocity = velocityIP
  /\ Gt(resultFriction, Zero) /\ resultFriction # frictionIP
  /\ Gt(resultRectSide, Zero)

\* the result as a function of the canonical inputs alone
SizingOf(airflow, friction, velocity, rectSide, md) ==
  LET d == effectDia(airflow, friction, velocity, md)
  IN  <<d,
        effectVelocity(airflow, velocity, d, md),
        effectFriction(airflow, friction, d, md),
        IF rectGuard(d, rectSide) THEN solveRectDimension(d, rectSide) ELSE Zero>>

\* C9: once the effect has run, the result is a function of the current
\* canonical inputs whatever the history, and a step that changes the unit
\* system changes neither the canonical inputs nor the result.
C9_NoIncrementalState ==
  /\ [](mounted => results = SizingOf(airflowIP, frictionIP, velocityIP, rectSideIP, mode))
  /\ [][units' # units => (inputs' = inputs /\ results' = results)]_vars

C9_EditedSwitchedToggled ==
  /\ mounted
  /\ units = "SI"
  /\ mode = "velocity"
  /\ airflowIP = Num(250)
  /\ rectSideIP = Num(4)
  /\ Gt(resultDia, Zero)
  /\ Gt(resultRectSide, Zero)

\* the call in flight or just ended has failed by a rejected request or by a
\* response that is not ok
geminiFailed == gemini \in {"rejected", "notOk"}

\* C11: a callGemini that ends by fetch rejecting or by a response that is
\* not ok leaves aiError non-empty, aiResponse empty and aiLoading false, and
\* no step of a call changes a canonical input or a field of the result.
C11_FailureReportedOnly ==
  /\ [](geminiFailed => (aiError # "" /\ aiResponse = "" /\ aiLoading = FALSE))
  /\ [][aiVars' # aiVars => (inputs' = inputs /\ results' = results)]_vars

C11_FailedAfterEdits ==
  /\ geminiFailed
  /\ aiMode = "draft"
  /\ aiError = FailedToConnect
  /\ aiResponse = ""
  /\ ~aiLoading
  /\ airflowIP = Num(250)
  /\ rectSideIP = Num(4)
  /\ mode = "velocity"

\* C12: for the canonical sides of any state, the compliance verdict of a
\* render with units = IP is that of a render with units = SI, also when one
\* of the two sides is 0.
C12_VerdictSameInBothUnits == isRatioWarningIn("IP") <=> isRatioWarningIn("SI")

====
